---- MODULE Spec2Model ----
(***************************************************************************)
(* A model of chess_game.py: the Board engine (pseudo-move generation,     *)
(* attack detection, legality filtering by apply-then-undo, move           *)
(* application and terminal-state evaluation) and the ChessGame loop       *)
(* around it (mouse clicks of the human playing White, the delayed random  *)
(* reply of Black, reset on click after the game is over, QUIT).           *)
(*                                                                         *)
(* Squares are <<row, col>> with row 0 Black's home rank, as in the code.  *)
(* A move is <<from, to, promo>>, promo being "Q" or "None".               *)
(***************************************************************************)
EXTENDS Integers, Sequences, FiniteSets, TLC

----------------------------------------------------------------------------
(* Configuration constants of the program. *)

TILE_SIZE == 80
BOARD_SIZE == 8
BOARD_PIXELS == TILE_SIZE * BOARD_SIZE

----------------------------------------------------------------------------
(* Bounds of the exploration. *)

\* The unscripted moves (moves that leave the scripted games below) that may
\* be applied to one board.
MaxFree == 1
\* The first unscripted move is explored from the scripted positions at most
\* MaxTail moves before the end of their script.
MaxTail == 3
\* Where the exploration is not over every legal move (random.choice of the
\* opponent, and every move after the first unscripted one), it is over the
\* scripted move and the first MaxChoices entries of the legal-move list.
MaxChoices == 2

----------------------------------------------------------------------------
(* Values. *)

\* Python's None, for a piece, a move's promotion, game_over and winner.
NoneVal == "None"
None == [color |-> NoneVal, kind |-> NoneVal]
Piece(color, kind) == [color |-> color, kind |-> kind]
Colors == {"w", "b"}
Kinds == {"K", "Q", "R", "B", "N", "P"}
Rows == 0 .. (BOARD_SIZE - 1)
Squares == Rows \X Rows
Opp(color) == IF color = "w" THEN "b" ELSE "w"

\* e evaluated once and handed to Body as a value.
Bind(e, Body(_)) == CHOOSE y \in {Body(v) : v \in {e}} : TRUE

RECURSIVE FlattenFrom(_, _)
FlattenFrom(ss, k) ==
  IF k > Len(ss) THEN <<>> ELSE ss[k] \o FlattenFrom(ss, k + 1)

Flatten(ss) == Bind(ss, LAMBDA s : FlattenFrom(s, 1))

----------------------------------------------------------------------------
(* Board: construction and queries. *)

order == <<"R", "N", "B", "Q", "K", "B", "N", "R">>

place_start_position ==
  [r \in Rows |-> [c \in Rows |->
     IF r = 0 THEN Piece("b", order[c + 1])
     ELSE IF r = 1 THEN Piece("b", "P")
     ELSE IF r = 6 THEN Piece("w", "P")
     ELSE IF r = 7 THEN Piece("w", order[c + 1])
     ELSE None]]

NewBoard ==
  [grid |-> place_start_position, turn |-> "w", halfmove_clock |-> 0,
   fullmove_number |-> 1, game_over |-> NoneVal, winner |-> NoneVal]

in_bounds(r, c) == 0 <= r /\ r < 8 /\ 0 <= c /\ c < 8

empty(g, r, c) == g[r][c] = None

occupied_by(g, r, c, color) == g[r][c] # None /\ g[r][c].color = color

\* The first king of the colour in row-major order, <<>> when there is none.
king_position(g, color) ==
  LET ks == {sq \in Squares : g[sq[1]][sq[2]] = Piece(color, "K")}
  IN IF ks = {} THEN <<>>
     ELSE CHOOSE sq \in ks : \A o \in ks : sq[1] * 8 + sq[2] <= o[1] * 8 + o[2]

----------------------------------------------------------------------------
(* Pseudo-move generation, in the order the code appends the moves. *)

\* Fault: the double step from the starting rank is missing.
PawnMoves_NoDoubleStep(g, r, c, p) ==
  LET dir == IF p.color = "w" THEN -1 ELSE 1
      nr == r + dir
      promo == IF nr = 0 \/ nr = 7 THEN "Q" ELSE NoneVal
      forward == IF in_bounds(nr, c) /\ empty(g, nr, c)
                 THEN << << <<r, c>>, <<nr, c>>, promo >> >>
                 ELSE <<>>
      capture(dc) == IF in_bounds(nr, c + dc) /\ ~empty(g, nr, c + dc)
                        /\ ~occupied_by(g, nr, c + dc, p.color)
                     THEN << << <<r, c>>, <<nr, c + dc>>, promo >> >>
                     ELSE <<>>
  IN forward \o capture(-1) \o capture(1)

\* Fault: the double step does not look at the square it passes.
PawnMoves_JumpsOver(g, r, c, p) ==
  LET dir == IF p.color = "w" THEN -1 ELSE 1
      start_row == IF p.color = "w" THEN 6 ELSE 1
      nr == r + dir
      nr2 == r + 2 * dir
      promo == IF nr = 0 \/ nr = 7 THEN "Q" ELSE NoneVal
      single == IF in_bounds(nr, c) /\ empty(g, nr, c)
                THEN << << <<r, c>>, <<nr, c>>, promo >> >>
                ELSE <<>>
      double == IF r = start_row /\ empty(g, nr2, c)
                THEN << << <<r, c>>, <<nr2, c>>, NoneVal >> >>
                ELSE <<>>
      capture(dc) == IF in_bounds(nr, c + dc) /\ ~empty(g, nr, c + dc)
                        /\ ~occupied_by(g, nr, c + dc, p.color)
                     THEN << << <<r, c>>, <<nr, c + dc>>, promo >> >>
                     ELSE <<>>
  IN single \o double \o capture(-1) \o capture(1)

PawnMoves(g, r, c, p) ==
  LET dir == IF p.color = "w" THEN -1 ELSE 1
      start_row == IF p.color = "w" THEN 6 ELSE 1
      nr == r + dir
      nr2 == r + 2 * dir
      promo == IF nr = 0 \/ nr = 7 THEN "Q" ELSE NoneVal
      forward == IF in_bounds(nr, c) /\ empty(g, nr, c)
                 THEN << << <<r, c>>, <<nr, c>>, promo >> >>
                      \o (IF r = start_row /\ empty(g, nr2, c)
                          THEN << << <<r, c>>, <<nr2, c>>, NoneVal >> >>
                          ELSE <<>>)
                 ELSE <<>>
      capture(dc) == IF in_bounds(nr, c + dc) /\ ~empty(g, nr, c + dc)
                        /\ ~occupied_by(g, nr, c + dc, p.color)
                     THEN << << <<r, c>>, <<nr, c + dc>>, promo >> >>
                     ELSE <<>>
  IN forward \o capture(-1) \o capture(1)

KnightOffsets ==
  << <<-2, -1>>, <<-2, 1>>, <<-1, -2>>, <<-1, 2>>,
     <<1, -2>>, <<1, 2>>, <<2, -1>>, <<2, 1>> >>

KingOffsets ==
  << <<-1, -1>>, <<-1, 0>>, <<-1, 1>>, <<0, -1>>,
     <<0, 1>>, <<1, -1>>, <<1, 0>>, <<1, 1>> >>

\* Knight and King: one step by each offset, onto a square of the board that
\* no friendly piece occupies.
StepMoves(g, r, c, p, offsets) ==
  Flatten([i \in 1 .. Len(offsets) |->
     LET nr == r + offsets[i][1]
         nc == c + offsets[i][2]
     IN IF ~in_bounds(nr, nc) THEN <<>>
        ELSE IF occupied_by(g, nr, nc, p.color) THEN <<>>
        ELSE << << <<r, c>>, <<nr, nc>>, NoneVal >> >>])

\* Fault: the ray goes on behind an enemy piece.
RECURSIVE Ray_ThroughEnemies(_, _, _, _, _, _, _, _)
Ray_ThroughEnemies(g, r, c, p, nr, nc, dr, dc) ==
  IF ~in_bounds(nr, nc) THEN <<>>
  ELSE IF occupied_by(g, nr, nc, p.color) THEN <<>>
  ELSE << << <<r, c>>, <<nr, nc>>, NoneVal >> >>
       \o Ray_ThroughEnemies(g, r, c, p, nr + dr, nc + dc, dr, dc)

\* The while loop of one direction, from (nr, nc) on.
RECURSIVE Ray(_, _, _, _, _, _, _, _)
Ray(g, r, c, p, nr, nc, dr, dc) ==
  IF ~in_bounds(nr, nc) THEN <<>>
  ELSE IF occupied_by(g, nr, nc, p.color) THEN <<>>
  ELSE << << <<r, c>>, <<nr, nc>>, NoneVal >> >>
       \o (IF ~empty(g, nr, nc) THEN <<>>
           ELSE Ray(g, r, c, p, nr + dr, nc + dc, dr, dc))

DiagonalDirections == << <<-1, -1>>, <<-1, 1>>, <<1, -1>>, <<1, 1>> >>
OrthogonalDirections == << <<-1, 0>>, <<1, 0>>, <<0, -1>>, <<0, 1>> >>

SliderMoves(g, r, c, p) ==
  LET directions ==
        (IF p.kind \in {"B", "Q"} THEN DiagonalDirections ELSE <<>>)
        \o (IF p.kind \in {"R", "Q"} THEN OrthogonalDirections ELSE <<>>)
  IN Flatten([i \in 1 .. Len(directions) |->
        Ray(g, r, c, p, r + directions[i][1], c + directions[i][2],
            directions[i][1], directions[i][2])])

generate_pseudo_moves_from(g, sq, p) ==
  IF p.kind = "P" THEN PawnMoves(g, sq[1], sq[2], p)
  ELSE IF p.kind = "N" THEN StepMoves(g, sq[1], sq[2], p, KnightOffsets)
  ELSE IF p.kind \in {"B", "R", "Q"} THEN SliderMoves(g, sq[1], sq[2], p)
  ELSE IF p.kind = "K" THEN StepMoves(g, sq[1], sq[2], p, KingOffsets)
  ELSE <<>>

----------------------------------------------------------------------------
(* Attack and check detection. *)

\* Fault: pawns are left out of the attack test.
is_square_attacked_by_IgnoresPawns(g, sq, attacker_color) ==
  \E a \in Squares :
     /\ g[a[1]][a[2]] # None
     /\ g[a[1]][a[2]].color = attacker_color
     /\ g[a[1]][a[2]].kind # "P"
     /\ \E moves \in {generate_pseudo_moves_from(g, a, g[a[1]][a[2]])} :
           \E i \in 1 .. Len(moves) : moves[i][2] = sq

is_square_attacked_by(g, sq, attacker_color) ==
  \E a \in Squares :
     /\ g[a[1]][a[2]] # None
     /\ g[a[1]][a[2]].color = attacker_color
     /\ \E moves \in {generate_pseudo_moves_from(g, a, g[a[1]][a[2]])} :
           \E i \in 1 .. Len(moves) : moves[i][2] = sq

\* Fault: the king is tested against the pieces of its own side.
in_check_ByOwnSide(g, color) ==
  \E kpos \in {king_position(g, color)} :
     IF kpos = <<>> THEN FALSE
     ELSE is_square_attacked_by(g, kpos, color)

in_check(g, color) ==
  \E kpos \in {king_position(g, color)} :
     IF kpos = <<>> THEN FALSE
     ELSE is_square_attacked_by(g, kpos, Opp(color))

----------------------------------------------------------------------------
(* Legality filtering: apply the move on the grid itself, test, undo.  The   *)
(* grid the call leaves behind is part of the result.                        *)

\* Lines 212-213: the speculative move.
ApplyOnGrid(g, mv) ==
  LET piece == g[mv[1][1]][mv[1][2]]
      g1 == [g EXCEPT ![mv[2][1]][mv[2][2]] =
                IF mv[3] = NoneVal THEN piece ELSE Piece(piece.color, mv[3])]
  IN [g1 EXCEPT ![mv[1][1]][mv[1][2]] = None]

\* Lines 216-217: the undo, on the grid `applied` the speculative move left.
\* Fault: the undo restores the mover but not the captured piece.
UndoOnGrid_DropsCaptured(applied, mv, piece, captured) ==
  LET g1 == [applied EXCEPT ![mv[1][1]][mv[1][2]] = piece]
  IN [g1 EXCEPT ![mv[2][1]][mv[2][2]] = None]

UndoOnGrid(applied, mv, piece, captured) ==
  LET g1 == [applied EXCEPT ![mv[1][1]][mv[1][2]] = piece]
  IN [g1 EXCEPT ![mv[2][1]][mv[2][2]] = captured]

\* The grid is_legal_move(mv, color) leaves behind on the grid g.
GridAfterLegalityTest(g, mv) ==
  LET piece == g[mv[1][1]][mv[1][2]]
      captured == g[mv[2][1]][mv[2][2]]
  IN UndoOnGrid(ApplyOnGrid(g, mv), mv, piece, captured)

\* Fault: the legality test never looks at the mover's king.
is_legal_move_AlwaysLegal(g, mv, color) ==
  [legal |-> TRUE, grid |-> GridAfterLegalityTest(g, mv)]

is_legal_move(g, mv, color) ==
  Bind(ApplyOnGrid(g, mv), LAMBDA applied :
     [legal |-> ~in_check(applied, color),
      grid |-> GridAfterLegalityTest(g, mv)])

\* The loop over the pseudo-moves ms[lo .. hi] of one piece; acc carries the
\* legal moves found so far and the grid the calls left behind.
LegalStep(acc, mv, color) ==
  Bind(is_legal_move(acc.grid, mv, color), LAMBDA res :
     [legal |-> IF res.legal THEN Append(acc.legal, mv) ELSE acc.legal,
      grid |-> res.grid])

RECURSIVE LegalOfMoves(_, _, _, _, _)
LegalOfMoves(acc, ms, lo, hi, color) ==
  IF lo > hi THEN acc
  ELSE IF lo = hi THEN LegalStep(acc, ms[lo], color)
  ELSE Bind(LegalOfMoves(acc, ms, lo, (lo + hi) \div 2, color), LAMBDA a2 :
          LegalOfMoves(a2, ms, (lo + hi) \div 2 + 1, hi, color))

\* The loop body for square k (row-major index).
LegalOfSquare(acc, k, color) ==
  LET r == k \div 8
      c == k % 8
      p == acc.grid[r][c]
  IN IF p # None /\ p.color = color
     THEN Bind(generate_pseudo_moves_from(acc.grid, <<r, c>>, p), LAMBDA ms :
             LegalOfMoves(acc, ms, 1, Len(ms), color))
     ELSE acc

\* The loop over the squares lo .. hi in row-major order.
RECURSIVE LegalOfSquares(_, _, _, _)
LegalOfSquares(acc, lo, hi, color) ==
  IF lo = hi THEN LegalOfSquare(acc, lo, color)
  ELSE Bind(LegalOfSquares(acc, lo, (lo + hi) \div 2, color), LAMBDA a2 :
          LegalOfSquares(a2, (lo + hi) \div 2 + 1, hi, color))

\* [legal |-> the list the call returns, grid |-> the grid it leaves].
generate_legal_moves(g, color) ==
  Bind([legal |-> <<>>, grid |-> g], LAMBDA acc :
     LegalOfSquares(acc, 0, 63, color))

----------------------------------------------------------------------------
(* Move application and terminal-state evaluation, on a board record. *)

\* Fault: the two verdicts are exchanged.
update_game_state_SwappedVerdict(b) ==
  IF b.game_over # NoneVal THEN b
  ELSE Bind(generate_legal_moves(b.grid, b.turn), LAMBDA res :
         IF Len(res.legal) = 0
         THEN IF ~in_check(res.grid, b.turn)
              THEN [b EXCEPT !.grid = res.grid, !.game_over = "checkmate",
                             !.winner = Opp(b.turn)]
              ELSE [b EXCEPT !.grid = res.grid, !.game_over = "stalemate",
                             !.winner = NoneVal]
         ELSE [b EXCEPT !.grid = res.grid])

\* Fault: a winner is named whenever the side to move has no legal move.
update_game_state_WinnerOnStalemate(b) ==
  IF b.game_over # NoneVal THEN b
  ELSE Bind(generate_legal_moves(b.grid, b.turn), LAMBDA res :
         IF Len(res.legal) = 0
         THEN [b EXCEPT !.grid = res.grid,
                        !.game_over = IF in_check(res.grid, b.turn)
                                      THEN "checkmate" ELSE "stalemate",
                        !.winner = Opp(b.turn)]
         ELSE [b EXCEPT !.grid = res.grid])

\* Fault: the mated side is named as the winner.
update_game_state_WinnerIsLoser(b) ==
  IF b.game_over # NoneVal THEN b
  ELSE Bind(generate_legal_moves(b.grid, b.turn), LAMBDA res :
         IF Len(res.legal) = 0
         THEN IF in_check(res.grid, b.turn)
              THEN [b EXCEPT !.grid = res.grid, !.game_over = "checkmate",
                             !.winner = b.turn]
              ELSE [b EXCEPT !.grid = res.grid, !.game_over = "stalemate",
                             !.winner = NoneVal]
         ELSE [b EXCEPT !.grid = res.grid])

\* Fault: every evaluation advances the halfmove clock, and a set verdict
\* does not end it early.
update_game_state_CountsCalls(b) ==
  Bind(generate_legal_moves(b.grid, b.turn), LAMBDA res :
    IF Len(res.legal) = 0
    THEN IF in_check(res.grid, b.turn)
         THEN [b EXCEPT !.grid = res.grid, !.game_over = "checkmate",
                        !.winner = Opp(b.turn), !.halfmove_clock = @ + 1]
         ELSE [b EXCEPT !.grid = res.grid, !.game_over = "stalemate",
                        !.winner = NoneVal, !.halfmove_clock = @ + 1]
    ELSE [b EXCEPT !.grid = res.grid, !.halfmove_clock = @ + 1])

update_game_state(b) ==
  IF b.game_over # NoneVal THEN b
  ELSE Bind(generate_legal_moves(b.grid, b.turn), LAMBDA res :
         IF Len(res.legal) = 0
         THEN IF in_check(res.grid, b.turn)
              THEN [b EXCEPT !.grid = res.grid, !.game_over = "checkmate",
                             !.winner = Opp(b.turn)]
              ELSE [b EXCEPT !.grid = res.grid, !.game_over = "stalemate",
                             !.winner = NoneVal]
         ELSE [b EXCEPT !.grid = res.grid])

\* Fault: the origin is cleared before the piece is read from it.
MoveAndTurn_LosesPiece(b, mv) ==
  LET g1 == [b.grid EXCEPT ![mv[1][1]][mv[1][2]] = None]
      g2 == [g1 EXCEPT ![mv[2][1]][mv[2][2]] = g1[mv[1][1]][mv[1][2]]]
      t == IF b.turn = "w" THEN "b" ELSE "w"
  IN [b EXCEPT !.grid = g2, !.turn = t,
               !.fullmove_number = IF t = "w" THEN @ + 1 ELSE @]

\* Fault: the turn is never handed over.
MoveAndTurn_NoTurnFlip(b, mv) ==
  LET piece == b.grid[mv[1][1]][mv[1][2]]
      g1 == [b.grid EXCEPT ![mv[2][1]][mv[2][2]] =
                IF mv[3] = NoneVal THEN piece ELSE Piece(piece.color, mv[3])]
      g2 == [g1 EXCEPT ![mv[1][1]][mv[1][2]] = None]
  IN [b EXCEPT !.grid = g2]

\* Fault: the origin square is not cleared.
MoveAndTurn_KeepsOrigin(b, mv) ==
  LET piece == b.grid[mv[1][1]][mv[1][2]]
      g1 == [b.grid EXCEPT ![mv[2][1]][mv[2][2]] =
                IF mv[3] = NoneVal THEN piece ELSE Piece(piece.color, mv[3])]
      t == IF b.turn = "w" THEN "b" ELSE "w"
  IN [b EXCEPT !.grid = g1, !.turn = t,
               !.fullmove_number = IF t = "w" THEN @ + 1 ELSE @]

\* Fault: the promotion of the move is ignored.
MoveAndTurn_IgnoresPromotion(b, mv) ==
  LET piece == b.grid[mv[1][1]][mv[1][2]]
      g1 == [b.grid EXCEPT ![mv[2][1]][mv[2][2]] = piece]
      g2 == [g1 EXCEPT ![mv[1][1]][mv[1][2]] = None]
      t == IF b.turn = "w" THEN "b" ELSE "w"
  IN [b EXCEPT !.grid = g2, !.turn = t,
               !.fullmove_number = IF t = "w" THEN @ + 1 ELSE @]

\* Fault: the move counter is incremented when play passes to Black.
MoveAndTurn_CountsWhiteMoves(b, mv) ==
  LET piece == b.grid[mv[1][1]][mv[1][2]]
      g1 == [b.grid EXCEPT ![mv[2][1]][mv[2][2]] =
                IF mv[3] = NoneVal THEN piece ELSE Piece(piece.color, mv[3])]
      g2 == [g1 EXCEPT ![mv[1][1]][mv[1][2]] = None]
      t == IF b.turn = "w" THEN "b" ELSE "w"
  IN [b EXCEPT !.grid = g2, !.turn = t,
               !.fullmove_number = IF t = "b" THEN @ + 1 ELSE @]

\* Lines 221-234: the move itself, the turn and the move counter.
MoveAndTurn(b, mv) ==
  LET piece == b.grid[mv[1][1]][mv[1][2]]
      g1 == [b.grid EXCEPT ![mv[2][1]][mv[2][2]] =
                IF mv[3] = NoneVal THEN piece ELSE Piece(piece.color, mv[3])]
      g2 == [g1 EXCEPT ![mv[1][1]][mv[1][2]] = None]
      t == IF b.turn = "w" THEN "b" ELSE "w"
  IN [b EXCEPT !.grid = g2, !.turn = t,
               !.fullmove_number = IF t = "w" THEN @ + 1 ELSE @]

make_move(b, mv) ==
  Bind(MoveAndTurn(b, mv), LAMBDA moved : update_game_state(moved))

----------------------------------------------------------------------------
(* The games the exploration follows.  Each is a list of <<from, to>>; the    *)
(* model applies a scripted move only when it is in the legal-move list.     *)

\* 1. f3 e5 2. g4 Qh4#
FoolsMate ==
  << <<<<6,5>>,<<5,5>>>>, <<<<1,4>>,<<3,4>>>>, <<<<6,6>>,<<4,6>>>>,
     <<<<0,3>>,<<4,7>>>> >>

\* 1. e3 a5 2. Qh5 Ra6 3. Qxa5 h5 4. h4 Rah6 5. Qxc7 f6 6. Qxd7+ Kf7
\* 7. Qxb7 Qd3 8. Qxb8 Qh7 9. Qxc8 Kg6 10. Qe6 stalemate
LoydStalemate ==
  << <<<<6,4>>,<<5,4>>>>, <<<<1,0>>,<<3,0>>>>, <<<<7,3>>,<<3,7>>>>,
     <<<<0,0>>,<<2,0>>>>, <<<<3,7>>,<<3,0>>>>, <<<<1,7>>,<<3,7>>>>,
     <<<<6,7>>,<<4,7>>>>, <<<<2,0>>,<<2,7>>>>, <<<<3,0>>,<<1,2>>>>,
     <<<<1,5>>,<<2,5>>>>, <<<<1,2>>,<<1,3>>>>, <<<<0,4>>,<<1,5>>>>,
     <<<<1,3>>,<<1,1>>>>, <<<<0,3>>,<<5,3>>>>, <<<<1,1>>,<<0,1>>>>,
     <<<<5,3>>,<<1,7>>>>, <<<<0,1>>,<<0,2>>>>, <<<<1,5>>,<<2,6>>>>,
     <<<<0,2>>,<<2,4>>>> >>

\* 1. h4 g5 2. hxg5 Nf6 3. gxf6 Bg7 4. fxg7 a5 5. g8=Q
WhitePromotion ==
  << <<<<6,7>>,<<4,7>>>>, <<<<1,6>>,<<3,6>>>>, <<<<4,7>>,<<3,6>>>>,
     <<<<0,6>>,<<2,5>>>>, <<<<3,6>>,<<2,5>>>>, <<<<0,5>>,<<1,6>>>>,
     <<<<2,5>>,<<1,6>>>>, <<<<1,0>>,<<3,0>>>>, <<<<1,6>>,<<0,6>>>> >>

\* 1. a3 h5 2. g4 hxg4 3. Nf3 gxf3 4. Bg2 fxg2 5. a4 gxh1=Q#
BlackPromotion ==
  << <<<<6,0>>,<<5,0>>>>, <<<<1,7>>,<<3,7>>>>, <<<<6,6>>,<<4,6>>>>,
     <<<<3,7>>,<<4,6>>>>, <<<<7,6>>,<<5,5>>>>, <<<<4,6>>,<<5,5>>>>,
     <<<<7,5>>,<<6,6>>>>, <<<<5,5>>,<<6,6>>>>, <<<<5,0>>,<<4,0>>>>,
     <<<<6,6>>,<<7,7>>>> >>

Scripts == <<FoolsMate, LoydStalemate, WhitePromotion, BlackPromotion>>

\* The length of the longest common prefix of the applied moves ms and script.
RECURSIVE CommonPrefix(_, _, _)
CommonPrefix(ms, script, k) ==
  IF k < Len(ms) /\ k < Len(script)
     /\ ms[k + 1][1] = script[k + 1][1] /\ ms[k + 1][2] = script[k + 1][2]
  THEN CommonPrefix(ms, script, k + 1)
  ELSE k

\* The number of applied moves after the game left every script.
FreeCount(ms) ==
  LET ks == {CommonPrefix(ms, Scripts[i], 0) : i \in 1 .. Len(Scripts)}
  IN Len(ms) - (CHOOSE k \in ks : \A j \in ks : j <= k)

\* ms follows script i so far.
Follows(ms, i) == CommonPrefix(ms, Scripts[i], 0) = Len(ms)

\* mv continues a script from the moves ms applied so far.
Scripted(ms, mv) == FreeCount(Append(ms, mv)) = 0

\* ms is a scripted position at most MaxTail moves before its script's end.
InTail(ms) ==
  \E i \in 1 .. Len(Scripts) :
     Follows(ms, i) /\ Len(Scripts[i]) - Len(ms) <= MaxTail

\* The exploration applies legal[i] after the moves ms; who is "click" for the
\* human's move and "ai" for the opponent's random choice.
Explored(ms, legal, i, who) ==
  \/ Scripted(ms, legal[i])
  \/ /\ FreeCount(ms) < MaxFree
     /\ IF FreeCount(ms) = 0
        THEN InTail(ms) /\ (who = "click" \/ i <= MaxChoices)
        ELSE i <= MaxChoices

\* Some move may still be applied within the bounds, or the game is over
\* (and a click starts a new one).
CanContinue(b, ms) ==
  \/ b.game_over # NoneVal
  \/ /\ FreeCount(ms) = 0
     /\ \/ \E i \in 1 .. Len(Scripts) :
             Follows(ms, i) /\ Len(Scripts[i]) > Len(ms)
        \/ InTail(ms) /\ MaxFree > 0
  \/ 0 < FreeCount(ms) /\ FreeCount(ms) < MaxFree

----------------------------------------------------------------------------
(* ChessGame: the state. *)

VARIABLES
  board,                     \* self.board, a Board record
  selected,                  \* self.selected: a square, or <<>> for None
  legal_moves_from_selected, \* the destinations highlighted for the selection
  running,                   \* self.running
  pending_ai_time,           \* None, or the deadline: not yet reached / reached
  pc,                        \* "run" inside the loop of run(), "done" after it
  played,                    \* history: the moves applied to the current board
  prev,                      \* history: the board before the last applied move
  caller,                    \* history: who applied it, "click" or "ai"
  just_moved                 \* history: the last step called make_move

vars == <<board, selected, legal_moves_from_selected, running,
          pending_ai_time, pc, played, prev, caller, just_moved>>

NoSquare == <<>>
ai_enabled_for_black == TRUE
\* pending_ai_time = get_ticks() + ai_delay_ms, while get_ticks() is below it.
Future == "future"
\* the same deadline once get_ticks() >= pending_ai_time.
Reached == "reached"

\* The pixel positions of the clicks: the centre of every tile, and the
\* info bar below the board.
ClickXs == {c * TILE_SIZE + TILE_SIZE \div 2 : c \in Rows}
ClickYs == {r * TILE_SIZE + TILE_SIZE \div 2 : r \in 0 .. BOARD_SIZE}

Init ==
  /\ board = NewBoard
  /\ selected = NoSquare
  /\ legal_moves_from_selected = <<>>
  /\ running = TRUE
  /\ pending_ai_time = NoneVal
  /\ pc = "run"
  /\ played = <<>>
  /\ prev = NewBoard
  /\ caller = NoneVal
  /\ just_moved = FALSE

----------------------------------------------------------------------------
(* Mouse clicks. *)

\* [to for (_f, to, _p) in legal if _f == sel]
RECURSIVE DestinationsFrom(_, _)
DestinationsFrom(legal, sel) ==
  IF legal = <<>> THEN <<>>
  ELSE (IF Head(legal)[1] = sel THEN <<Head(legal)[2]>> ELSE <<>>)
       \o DestinationsFrom(Tail(legal), sel)

\* move_candidates of line 328 for a click at pixel (x, y), <<>> when the
\* click does not reach that line.
MoveCandidates(b, sel, x, y, legal) ==
  LET c == x \div TILE_SIZE
      r == y \div TILE_SIZE
  IN IF y >= BOARD_PIXELS \/ ~in_bounds(r, c) \/ sel = NoSquare THEN <<>>
     ELSE IF b.grid[r][c] # None /\ b.grid[r][c].color = b.turn THEN <<>>
     ELSE SelectSeq(legal, LAMBDA mv : mv[1] = sel /\ mv[2] = <<r, c>>)

\* handle_click for a click at pixel (x, y); res is what the call
\* generate_legal_moves(self.board.turn) of the branch taken returns and
\* leaves.  made is <<mv>> when make_move(mv) was called.
handle_click(b, sel, lmfs, pend, x, y, res) ==
  LET c == x \div TILE_SIZE
      r == y \div TILE_SIZE
      same == [board |-> b, selected |-> sel, lmfs |-> lmfs,
               pending |-> pend, made |-> <<>>]
      queried == [b EXCEPT !.grid = res.grid]
      select == [board |-> queried, selected |-> <<r, c>>,
                 lmfs |-> DestinationsFrom(res.legal, <<r, c>>),
                 pending |-> pend, made |-> <<>>]
  IN IF y >= BOARD_PIXELS THEN same
     ELSE IF ~in_bounds(r, c) THEN same
     ELSE LET piece == b.grid[r][c]
              own == piece # None /\ piece.color = b.turn
          IN IF sel = NoSquare THEN (IF own THEN select ELSE same)
             ELSE IF own THEN select
             ELSE LET move_candidates ==
                        SelectSeq(res.legal,
                                  LAMBDA mv : mv[1] = sel /\ mv[2] = <<r, c>>)
                  IN IF move_candidates # <<>>
                     THEN Bind(make_move(queried, move_candidates[1]),
                            LAMBDA nb :
                              [board |-> nb, selected |-> NoSquare,
                               lmfs |-> <<>>,
                               pending |->
                                 IF ai_enabled_for_black
                                    /\ nb.game_over = NoneVal /\ nb.turn = "b"
                                 THEN Future ELSE pend,
                               made |-> <<move_candidates[1]>>])
                     ELSE [board |-> queried, selected |-> NoSquare,
                           lmfs |-> <<>>, pending |-> pend, made |-> <<>>]

\* Fault: the flags are cleared on the old board instead of a new Board().
reset_game_KeepsPosition ==
  /\ board' = [board EXCEPT !.game_over = NoneVal, !.winner = NoneVal]
  /\ selected' = NoSquare
  /\ legal_moves_from_selected' = <<>>
  /\ pending_ai_time' = NoneVal
  /\ played' = <<>>
  /\ prev' = NewBoard
  /\ caller' = NoneVal
  /\ just_moved' = FALSE
  /\ UNCHANGED <<running, pc>>

\* reset_game, reached by a click anywhere once the game is over.
reset_game ==
  /\ board' = NewBoard
  /\ selected' = NoSquare
  /\ legal_moves_from_selected' = <<>>
  /\ pending_ai_time' = NoneVal
  /\ played' = <<>>
  /\ prev' = NewBoard
  /\ caller' = NoneVal
  /\ just_moved' = FALSE
  /\ UNCHANGED <<running, pc>>

\* The MOUSEBUTTONDOWN branch of handle_events for a click at pixel (x, y) on
\* White's turn; res is what generate_legal_moves(self.board.turn) returns and
\* leaves in the state the click finds.
ClickOnTurn(x, y, res) ==
  LET cands == MoveCandidates(board, selected, x, y, res.legal)
  IN /\ IF cands = <<>> THEN TRUE
        ELSE \E i \in 1 .. Len(res.legal) :
               res.legal[i] = cands[1] /\ Explored(played, res.legal, i, "click")
     /\ \E out \in {handle_click(board, selected, legal_moves_from_selected,
                                 pending_ai_time, x, y, res)} :
          \* a click that changes nothing is a stuttering step of Spec
          /\ out # [board |-> board, selected |-> selected,
                    lmfs |-> legal_moves_from_selected,
                    pending |-> pending_ai_time, made |-> <<>>]
          /\ board' = out.board
          /\ selected' = out.selected
          /\ legal_moves_from_selected' = out.lmfs
          /\ pending_ai_time' = out.pending
          /\ IF out.made # <<>>
             THEN /\ played' = Append(played, out.made[1])
                  /\ prev' = board
                  /\ caller' = "click"
             ELSE UNCHANGED <<played, prev, caller>>
          /\ just_moved' = (out.made # <<>>)
          /\ UNCHANGED <<running, pc>>

\* handle_events, one MOUSEBUTTONDOWN event with button 1.
MouseButtonDown ==
  /\ pc = "run"
  /\ running
  /\ CanContinue(board, played)
  /\ IF board.game_over # NoneVal THEN reset_game
     ELSE IF board.turn = "w"
     THEN \E res \in {generate_legal_moves(board.grid, board.turn)} :
            \E x \in ClickXs, y \in ClickYs : ClickOnTurn(x, y, res)
     ELSE UNCHANGED vars

\* handle_events, the QUIT event; explored as the last event of its frame,
\* while no square is selected.
Quit ==
  /\ pc = "run"
  /\ running
  /\ CanContinue(board, played)
  /\ selected = NoSquare
  /\ running' = FALSE
  /\ just_moved' = FALSE
  /\ UNCHANGED <<board, selected, legal_moves_from_selected, pending_ai_time,
                 pc, played, prev, caller>>

----------------------------------------------------------------------------
(* The opponent's reply. *)

\* The entries of legal that random.choice is explored for.
AiChoices(legal, ms) ==
  {i \in 1 .. Len(legal) : Explored(ms, legal, i, "ai")}

\* ai_move: [board |-> the board it leaves, made |-> <<mv>> or <<>>] for every
\* choice explored.
ai_move(b, ms) ==
  Bind(generate_legal_moves(b.grid, "b"), LAMBDA res :
    Bind([b EXCEPT !.grid = res.grid], LAMBDA queried :
      IF Len(res.legal) = 0
      THEN {[board |-> update_game_state(queried), made |-> <<>>]}
      ELSE {[board |-> make_move(queried, res.legal[i]),
             made |-> <<res.legal[i]>>] : i \in AiChoices(res.legal, ms)}))

\* Fault: the reply is scheduled and made whoever is to move.
AiToMove_IgnoresTurn(b) ==
  ai_enabled_for_black /\ b.game_over = NoneVal

\* Fault: the reply is scheduled and made on a finished game too.
AiToMove_IgnoresGameOver(b) ==
  ai_enabled_for_black /\ b.turn = "b"

\* The guard of update(), line 352.
AiToMove(b) ==
  ai_enabled_for_black /\ b.game_over = NoneVal /\ b.turn = "b"

\* Fault: the deadline is set anew by every update while a reply is due.
Update_RearmsDeadline ==
  /\ pc = "run"
  /\ CanContinue(board, played)
  /\ pc' = IF running THEN "run" ELSE "done"
  /\ just_moved' = FALSE
  /\ pending_ai_time' = IF AiToMove(board) THEN Future ELSE pending_ai_time
  /\ UNCHANGED <<board, selected, legal_moves_from_selected, running,
                 played, prev, caller>>

\* update(), and the loop's test of self.running after it.
Update ==
  /\ pc = "run"
  /\ CanContinue(board, played)
  /\ pc' = IF running THEN "run" ELSE "done"
  /\ UNCHANGED <<selected, legal_moves_from_selected, running>>
  /\ IF AiToMove(board)
     THEN IF pending_ai_time = NoneVal
          THEN /\ pending_ai_time' = Future
               /\ just_moved' = FALSE
               /\ UNCHANGED <<board, played, prev, caller>>
          ELSE IF pending_ai_time = Reached
          THEN /\ pending_ai_time' = NoneVal
               /\ \E out \in ai_move(board, played) :
                    /\ board' = out.board
                    /\ just_moved' = (out.made # <<>>)
                    /\ IF out.made # <<>>
                       THEN /\ played' = Append(played, out.made[1])
                            /\ prev' = board
                            /\ caller' = "ai"
                       ELSE UNCHANGED <<played, prev, caller>>
          ELSE /\ just_moved' = FALSE
               /\ UNCHANGED <<board, pending_ai_time, played, prev, caller>>
     ELSE /\ just_moved' = FALSE
          /\ UNCHANGED <<board, pending_ai_time, played, prev, caller>>

\* The clock of pygame passes the deadline.
ClockAdvance ==
  /\ pc = "run"
  /\ CanContinue(board, played)
  /\ pending_ai_time = Future
  /\ pending_ai_time' = Reached
  /\ just_moved' = FALSE
  /\ UNCHANGED <<board, selected, legal_moves_from_selected, running, pc,
                 played, prev, caller>>

Next == MouseButtonDown \/ Quit \/ Update \/ ClockAdvance

Spec == Init /\ [][Next]_vars

\* run() calls update() in every frame while the loop runs, and the clock of
\* pygame does not stand still.
FairSpec == Spec /\ WF_vars(Update) /\ WF_vars(ClockAdvance)

----------------------------------------------------------------------------
(* The Board class on its own: a position of a white king, a black king and *)
(* a black queen is set up on a Board, White to move, and update_game_state *)
(* is called on it, twice.  The fields of ChessGame keep their first values. *)

\* The white king stands on row 7, in one of the first KingFiles columns.
KingFiles == 2
\* The black king and the black queen stand in the corner of CornerSize by
\* CornerSize squares at a1.
CornerSize == 3

Corner ==
  {sq \in Squares : sq[1] >= BOARD_SIZE - CornerSize /\ sq[2] < CornerSize}

Adjacent(a, b) ==
  a # b /\ (a[1] - b[1]) \in -1 .. 1 /\ (a[2] - b[2]) \in -1 .. 1

\* A Board whose grid holds the three pieces only.
PositionOf(wk, bk, bq) ==
  [NewBoard EXCEPT !.grid =
     [r \in Rows |-> [c \in Rows |->
        IF <<r, c>> = wk THEN Piece("w", "K")
        ELSE IF <<r, c>> = bk THEN Piece("b", "K")
        ELSE IF <<r, c>> = bq THEN Piece("b", "Q")
        ELSE None]]]

ConstructedBoards ==
  {PositionOf(t[1], t[2], t[3]) :
     t \in {u \in ({7} \X (0 .. KingFiles - 1)) \X Corner \X Corner :
              /\ u[1] # u[2] /\ u[1] # u[3] /\ u[2] # u[3]
              /\ ~Adjacent(u[1], u[2])}}

BoardInit ==
  /\ board \in ConstructedBoards
  /\ prev = board
  /\ pc = "built"
  /\ selected = NoSquare
  /\ legal_moves_from_selected = <<>>
  /\ running = TRUE
  /\ pending_ai_time = NoneVal
  /\ played = <<>>
  /\ caller = NoneVal
  /\ just_moved = FALSE

\* board.update_game_state(), the first and the second call.
EvaluateTerminal ==
  /\ pc \in {"built", "evaluated"}
  /\ board' = update_game_state(board)
  /\ prev' = board
  /\ pc' = IF pc = "built" THEN "evaluated" ELSE "evaluated twice"
  /\ UNCHANGED <<selected, legal_moves_from_selected, running,
                 pending_ai_time, played, caller, just_moved>>

BoardNext == EvaluateTerminal

BoardSpec == BoardInit /\ [][BoardNext]_vars

----------------------------------------------------------------------------
(* Properties.  prev is the board make_move was called on, LastMove the move *)
(* it applied and Mover the side that made it.                               *)

Moved == played # <<>>
LastMove == played[Len(played)]
Mover == prev.turn
FromSq == LastMove[1]
ToSq == LastMove[2]
At(g, sq) == g[sq[1]][sq[2]]

SeqToSet(s) == {s[i] : i \in 1 .. Len(s)}

\* Every pseudo-legal move of color on the grid g.
PseudoMovesOf(g, color) ==
  UNION {SeqToSet(generate_pseudo_moves_from(g, sq, At(g, sq))) :
           sq \in {s \in Squares : occupied_by(g, s[1], s[2], color)}}

PieceCount(g) == Cardinality({sq \in Squares : At(g, sq) # None})

KingSquares(g, color) == {sq \in Squares : At(g, sq) = Piece(color, "K")}

\* C1: in every reachable state the side that made the last move is not in
\* check: no applied move leaves the mover's own king attacked.
C1_NoSelfCheck == Moved => ~in_check(board.grid, Mover)

\* A side that was in check has moved and is out of check.
C1_Witness ==
  /\ just_moved
  /\ in_check(prev.grid, Mover)
  /\ ~in_check(board.grid, Mover)

\* C2: every reachable state has exactly one king of each colour, and the
\* piece an applied move captured is never a king.
C2_OneKingPerSide ==
  /\ \A color \in Colors : Cardinality(KingSquares(board.grid, color)) = 1
  /\ Moved => At(prev.grid, ToSq).kind # "K"

\* A capture that gives check has been applied and both kings stand.
C2_Witness ==
  /\ just_moved
  /\ At(prev.grid, ToSq) # None
  /\ in_check(board.grid, board.turn)
  /\ \A color \in Colors : Cardinality(KingSquares(board.grid, color)) = 1

\* C3: once game_over is set, no step applies a move, and a step either
\* leaves the board (grid, turn, fullmove_number, game_over, winner) as it is
\* or replaces it by the board of a new game.
C3_TerminalIsAbsorbing ==
  [][board.game_over # NoneVal =>
       /\ ~just_moved'
       /\ board' = board \/ (board' = NewBoard /\ played' = <<>>)]_vars

\* The game is over and a later step (an update, a quit) has run on it.
C3_Witness ==
  /\ board.game_over # NoneVal
  /\ ~just_moved
  /\ pc = "done"

\* C4: after every make_move the board is classified for the side now to
\* move: checkmate with the other side as winner iff it has no legal move and
\* is in check, stalemate without winner iff it has no legal move and is not
\* in check, and no verdict iff it has a legal move.
C4_Classification ==
  just_moved =>
    \E res \in {generate_legal_moves(board.grid, board.turn)} :
      \E chk \in {in_check(board.grid, board.turn)} :
        /\ (board.game_over = "checkmate" /\ board.winner = Opp(board.turn))
             <=> (res.legal = <<>> /\ chk)
        /\ (board.game_over = "stalemate" /\ board.winner = NoneVal)
             <=> (res.legal = <<>> /\ ~chk)
        /\ (board.game_over = NoneVal) <=> (res.legal # <<>>)
        /\ board.game_over \in {NoneVal, "checkmate", "stalemate"}

\* A move has stalemated the side to move.
C4_Witness ==
  /\ just_moved
  /\ board.game_over = "stalemate"
  /\ ~in_check(board.grid, board.turn)

\* C5: in every reachable state winner is set exactly when game_over is
\* "checkmate"; it is None in play and at stalemate.
C5_WinnerIffCheckmate ==
  /\ (board.winner # NoneVal) <=> (board.game_over = "checkmate")
  /\ board.winner \in Colors \cup {NoneVal}

\* A mating move has been made and its side is the winner.
C5_Witness ==
  /\ just_moved
  /\ board.game_over = "checkmate"
  /\ board.winner = "b"

\* C6: each applied move hands the turn to the other side; from White at the
\* start, the side to move is White after an even number of applied moves and
\* Black after an odd number.
C6_TurnAlternates ==
  /\ board.turn = IF Len(played) % 2 = 0 THEN "w" ELSE "b"
  /\ Moved => board.turn = Opp(Mover)

\* Both sides have moved and it is White's turn again.
C6_Witness ==
  /\ just_moved
  /\ Len(played) >= 2
  /\ board.turn = "w"
  /\ caller = "ai"

\* C7: every make_move call of the game was made on a board with game_over =
\* None and with a member of generate_legal_moves(board.turn) of that board;
\* the moved piece belongs to the side to move, White when the call came from
\* handle_click and Black when it came from ai_move.
C7_SanctionedCalls ==
  just_moved =>
    /\ prev.game_over = NoneVal
    /\ LastMove \in SeqToSet(generate_legal_moves(prev.grid, Mover).legal)
    /\ At(prev.grid, FromSq) # None
    /\ At(prev.grid, FromSq).color = Mover
    /\ caller \in {"click", "ai"}
    /\ caller = "click" => Mover = "w"
    /\ caller = "ai" => Mover = "b"

\* The opponent's reply has been applied after a human move.
C7_Witness ==
  /\ just_moved
  /\ caller = "ai"
  /\ Len(played) >= 2
  /\ At(board.grid, ToSq).color = "b"

\* C8: in every position the game reaches (the initial one and the one after
\* each applied move) the legality test of every pseudo-legal move of either
\* side, captures and promotions included, leaves the grid as it found it,
\* and so does generate_legal_moves(turn); the position after a move is exactly
\* what make_move wrote, untouched by the legality tests before and after it.
\* (turn, fullmove_number, game_over and winner are not assigned by lines
\* 196-218.)
C8_LegalityTestsRestore ==
  /\ (just_moved \/ ~Moved) =>
       /\ \A color \in Colors :
            \A mv \in PseudoMovesOf(board.grid, color) :
               GridAfterLegalityTest(board.grid, mv) = board.grid
       /\ generate_legal_moves(board.grid, board.turn).grid = board.grid
  /\ just_moved =>
       \E moved \in {MoveAndTurn(prev, LastMove)} :
          /\ board.grid = moved.grid
          /\ board.turn = moved.turn
          /\ board.fullmove_number = moved.fullmove_number

\* The side to move has a capturing promotion among its pseudo-legal moves,
\* and the legality tests of the last move have run.
C8_Witness ==
  /\ just_moved
  /\ \E mv \in PseudoMovesOf(board.grid, board.turn) :
        mv[3] = "Q" /\ At(board.grid, mv[2]) # None

\* C9: an applied move leaves its destination holding the mover's piece, its
\* origin empty and every other square as it was; when the destination held
\* an enemy piece the number of pieces drops by exactly one and no move is
\* generated for the captured side from that square, otherwise the number of
\* pieces is unchanged.
C9_CaptureRemovesPiece ==
  Moved =>
    /\ At(board.grid, ToSq) =
         IF LastMove[3] = NoneVal THEN At(prev.grid, FromSq)
         ELSE Piece(Mover, LastMove[3])
    /\ At(board.grid, ToSq).color = Mover
    /\ At(board.grid, FromSq) = None
    /\ \A sq \in Squares \ {FromSq, ToSq} : At(board.grid, sq) = At(prev.grid, sq)
    /\ IF At(prev.grid, ToSq) # None
       THEN /\ At(prev.grid, ToSq).color = Opp(Mover)
            /\ PieceCount(board.grid) = PieceCount(prev.grid) - 1
            /\ \A mv \in PseudoMovesOf(board.grid, Opp(Mover)) : mv[1] # ToSq
       ELSE PieceCount(board.grid) = PieceCount(prev.grid)

\* A capture has been applied.
C9_Witness ==
  /\ just_moved
  /\ At(prev.grid, ToSq) # None
  /\ At(prev.grid, ToSq).color = Opp(Mover)
  /\ PieceCount(board.grid) = PieceCount(prev.grid) - 1

\* C10: a generated move carries the promotion "Q" exactly when it is a pawn
\* move landing on row 0 or row 7; an applied move places a Queen of the
\* mover's side in that case and the moved piece itself in every other; no
\* pawn stands on row 0 or row 7.
C10_Promotion ==
  /\ \A color \in Colors :
       \A mv \in PseudoMovesOf(board.grid, color) :
          mv[3] = IF At(board.grid, mv[1]).kind = "P" /\ mv[2][1] \in {0, 7}
                  THEN "Q" ELSE NoneVal
  /\ Moved =>
       /\ LastMove[3] = IF At(prev.grid, FromSq).kind = "P" /\ ToSq[1] \in {0, 7}
                        THEN "Q" ELSE NoneVal
       /\ At(board.grid, ToSq) =
            IF At(prev.grid, FromSq).kind = "P" /\ ToSq[1] \in {0, 7}
            THEN Piece(Mover, "Q") ELSE At(prev.grid, FromSq)
  /\ \A sq \in Squares : At(board.grid, sq).kind = "P" => sq[1] \notin {0, 7}

\* A pawn has been moved to the final rank and a Queen stands there.
C10_Witness ==
  /\ just_moved
  /\ At(prev.grid, FromSq).kind = "P"
  /\ LastMove[3] = "Q"
  /\ At(board.grid, ToSq) = Piece(Mover, "Q")

\* The moves f2f3, e7e5, g2g4, Qd8h4 as the move generator emits them.
FoolsMateMoves ==
  [i \in 1 .. Len(FoolsMate) |-> <<FoolsMate[i][1], FoolsMate[i][2], NoneVal>>]

\* C11: from the standard position, each of f2f3, e7e5, g2g4, Qd8h4 is in the
\* legal-move list of the side to move when its turn comes, game_over is None
\* after the first three, and after the fourth game_over is "checkmate" and
\* the winner is Black.
C11_FoolsMate ==
  \A k \in 0 .. Len(FoolsMateMoves) :
     played = SubSeq(FoolsMateMoves, 1, k) =>
       IF k < Len(FoolsMateMoves)
       THEN /\ board.game_over = NoneVal
            /\ board.winner = NoneVal
            /\ (just_moved \/ ~Moved) =>
                 FoolsMateMoves[k + 1] \in
                   SeqToSet(generate_legal_moves(board.grid, board.turn).legal)
       ELSE /\ board.game_over = "checkmate"
            /\ board.winner = "b"

\* The four moves have been played and the game is over.
C11_Witness ==
  /\ played = FoolsMateMoves
  /\ prev.game_over = NoneVal
  /\ board.game_over = "checkmate"
  /\ board.winner = "b"

\* White king a1, black king a3, black queen b3, White to move.
StalemateFixture == PositionOf(<<7, 0>>, <<5, 0>>, <<5, 1>>)

\* C12: in the position with only the white king on a1, the black king on a3
\* and the black queen on b3, White to move, White is not in check and has no
\* legal move, and update_game_state sets game_over = "stalemate" with winner
\* None.
C12_StalemateFixture ==
  (board.grid = StalemateFixture.grid /\ board.turn = "w") =>
    /\ ~in_check(board.grid, "w")
    /\ generate_legal_moves(board.grid, "w").legal = <<>>
    /\ pc = "built" => board = StalemateFixture
    /\ pc # "built" =>
         board = [StalemateFixture EXCEPT !.game_over = "stalemate",
                                          !.winner = NoneVal]

\* update_game_state has been called on the fixture.
C12_Witness ==
  /\ pc = "evaluated"
  /\ prev = StalemateFixture
  /\ board.game_over = "stalemate"
  /\ board.winner = NoneVal

\* C13: on a freshly created board (standard layout, White to move, game_over
\* None) generate_legal_moves("w") returns exactly 20 moves: 8 single pawn
\* steps, 8 double pawn steps and 4 knight moves.
C13_TwentyMovesAtStart ==
  ~Moved =>
    /\ board.turn = "w"
    /\ board.game_over = NoneVal
    /\ \A c \in Rows :
         /\ board.grid[6][c] = Piece("w", "P")
         /\ board.grid[1][c] = Piece("b", "P")
         /\ board.grid[7][c].color = "w"
         /\ board.grid[0][c].color = "b"
    /\ \E legal \in {generate_legal_moves(board.grid, "w").legal} :
         /\ Len(legal) = 20
         /\ Cardinality(SeqToSet(legal)) = 20
         /\ Cardinality({mv \in SeqToSet(legal) :
                           /\ At(board.grid, mv[1]).kind = "P"
                           /\ mv[2] = <<mv[1][1] - 1, mv[1][2]>>}) = 8
         /\ Cardinality({mv \in SeqToSet(legal) :
                           /\ At(board.grid, mv[1]).kind = "P"
                           /\ mv[2] = <<mv[1][1] - 2, mv[1][2]>>}) = 8
         /\ Cardinality({mv \in SeqToSet(legal) :
                           At(board.grid, mv[1]).kind = "N"}) = 4

\* On the new board a click has selected the knight on b1, and the two
\* destinations the legal-move list has for it are stored.
C13_Witness ==
  /\ ~Moved
  /\ board = NewBoard
  /\ selected = <<7, 1>>
  /\ Len(legal_moves_from_selected) = 2

\* The applied moves that were Black's: White moves first and the sides
\* alternate, so they are the moves at the even places of played.
BlackMoves == {i \in 1 .. Len(played) : i % 2 = 0}

\* C14: fullmove_number is positive, 1 on a new board, one more after each
\* Black move and the same after each White move; in every reachable state
\* it is 1 plus the number of Black moves applied since the game started.
C14_FullmoveNumber ==
  /\ board.fullmove_number \in Nat \ {0}
  /\ ~Moved => board.fullmove_number = 1
  /\ Moved => board.fullmove_number =
                prev.fullmove_number + (IF Mover = "b" THEN 1 ELSE 0)
  /\ board.fullmove_number = 1 + Cardinality(BlackMoves)

\* Black has moved at least twice and the counter has followed.
C14_Witness ==
  /\ just_moved
  /\ Mover = "b"
  /\ Len(played) >= 4
  /\ board.fullmove_number = prev.fullmove_number + 1
  /\ board.fullmove_number >= 3

\* C15: update_game_state called on a position whose game_over is set leaves
\* the whole board (game_over, winner, grid, turn, counters) as it is, and a
\* second call in a row on any position leaves what the first call left.
C15_IdempotentEvaluation ==
  /\ (pc # "built" /\ prev.game_over # NoneVal) => board = prev
  /\ pc = "evaluated twice" => board = prev

\* The second call has run on a position the first call found checkmated.
C15_Witness ==
  /\ pc = "evaluated twice"
  /\ prev.game_over = "checkmate"
  /\ board = prev

\* C16: pending_ai_time is set only while it is Black's turn and game_over is
\* None; it becomes set only on such a board; it is cleared by ai_move only,
\* which runs at the reached deadline on a board with Black to move,
\* game_over None and the terminal evaluation of White's move done, and
\* which applies exactly one move, a legal one, then leaves pending_ai_time
\* None and the turn with White.
C16_ReplyScheduling ==
  /\ [](pending_ai_time # NoneVal =>
          board.turn = "b" /\ board.game_over = NoneVal)
  /\ [][/\ (pending_ai_time = NoneVal /\ pending_ai_time' # NoneVal) =>
             /\ pending_ai_time' = Future
             /\ board'.turn = "b"
             /\ board'.game_over = NoneVal
        /\ (pending_ai_time # NoneVal /\ pending_ai_time' = NoneVal) =>
             /\ pending_ai_time = Reached
             /\ board.turn = "b"
             /\ board.game_over = NoneVal
             /\ update_game_state(board) = board
             /\ just_moved' /\ caller' = "ai"
             /\ Len(played') = Len(played) + 1
             /\ \E mv \in SeqToSet(generate_legal_moves(board.grid, "b").legal) :
                   /\ played' = Append(played, mv)
                   /\ board' = make_move(board, mv)
             /\ board'.turn = "w"]_vars

\* The reply has been made at its deadline and nothing is pending.
C16_Witness ==
  /\ just_moved
  /\ caller = "ai"
  /\ prev.turn = "b"
  /\ prev.game_over = NoneVal
  /\ board.turn = "w"
  /\ pending_ai_time = NoneVal

\* The squares with a piece on the grid g.
Occupied(g) == {sq \in Squares : At(g, sq) # None}

Abs(n) == IF n < 0 THEN -n ELSE n
Sign(n) == IF n < 0 THEN -1 ELSE IF n > 0 THEN 1 ELSE 0

\* b lies on a diagonal, respectively on a rank or file, through a.
OnDiagonal(a, b) == a # b /\ Abs(b[1] - a[1]) = Abs(b[2] - a[2])
OnLine(a, b) == a # b /\ (b[1] = a[1] \/ b[2] = a[2])
OnRayOf(kind, a, b) ==
  \/ kind \in {"B", "Q"} /\ OnDiagonal(a, b)
  \/ kind \in {"R", "Q"} /\ OnLine(a, b)

\* The squares strictly between a and b on their common line.
Between(a, b) ==
  LET n == IF Abs(b[1] - a[1]) > Abs(b[2] - a[2])
           THEN Abs(b[1] - a[1]) ELSE Abs(b[2] - a[2])
  IN {<<a[1] + k * Sign(b[1] - a[1]), a[2] + k * Sign(b[2] - a[2])>> :
        k \in 1 .. (n - 1)}

Destinations(g, sq) ==
  {mv[2] : mv \in SeqToSet(generate_pseudo_moves_from(g, sq, At(g, sq)))}

\* C17: in every position the game reaches, every generated move of every
\* piece starts at the piece, ends on the board on another square, and not
\* on a friendly piece; for a Bishop, Rook or Queen a destination is
\* generated iff it lies on one of the piece's rays, every square strictly
\* between is empty, and the destination is empty or holds an enemy piece.
C17_PseudoMoveGeometry ==
  (just_moved \/ ~Moved) =>
    \A sq \in Occupied(board.grid) :
       /\ \A mv \in SeqToSet(generate_pseudo_moves_from(board.grid, sq,
                                                      At(board.grid, sq))) :
             /\ mv[1] = sq
             /\ mv[2] \in Squares
             /\ mv[2] # sq
             /\ At(board.grid, mv[2]).color # At(board.grid, sq).color
       /\ At(board.grid, sq).kind \in {"B", "R", "Q"} =>
            Destinations(board.grid, sq) =
              {t \in Squares :
                 /\ OnRayOf(At(board.grid, sq).kind, sq, t)
                 /\ \A m \in Between(sq, t) : At(board.grid, m) = None
                 /\ At(board.grid, t).color # At(board.grid, sq).color}

\* A slider captures at the end of one ray and is stopped short of a square
\* on a ray by a piece standing between.
C17_Witness ==
  /\ just_moved
  /\ \E sq \in Occupied(board.grid) :
        /\ At(board.grid, sq).kind \in {"B", "R", "Q"}
        /\ \E t \in Destinations(board.grid, sq) : At(board.grid, t) # None
        /\ \E t \in Squares \ Destinations(board.grid, sq) :
              /\ OnRayOf(At(board.grid, sq).kind, sq, t)
              /\ At(board.grid, t) = None
              /\ \E m \in Between(sq, t) : At(board.grid, m) # None

\* The direction a pawn of the colour moves in, and its starting row.
Forward(color) == IF color = "w" THEN -1 ELSE 1
StartRow(color) == IF color = "w" THEN 6 ELSE 1

Pawns(g) == {sq \in Squares : At(g, sq).kind = "P"}

IsEmpty(g, sq) == sq \in Squares /\ At(g, sq) = None
HoldsEnemyOf(g, sq, color) ==
  sq \in Squares /\ At(g, sq) # None /\ At(g, sq).color # color

\* C18: in every position the game reaches, for every pawn: the single step
\* is generated iff the square ahead is empty; the double step iff the pawn
\* is on its starting rank and both squares ahead are empty; each diagonal
\* move iff that forward-diagonal square holds an enemy piece; and nothing
\* else is generated (no capture straight ahead, no diagonal move onto an
\* empty square).
C18_PawnMoves ==
  (just_moved \/ ~Moved) =>
    \A sq \in Pawns(board.grid) :
       \E color \in {At(board.grid, sq).color} :
       \E dests \in {Destinations(board.grid, sq)} :
       \E one \in {<<sq[1] + Forward(color), sq[2]>>} :
       \E two \in {<<sq[1] + 2 * Forward(color), sq[2]>>} :
          /\ one \in dests <=> IsEmpty(board.grid, one)
          /\ two \in dests <=> /\ sq[1] = StartRow(color)
                               /\ IsEmpty(board.grid, one)
                               /\ IsEmpty(board.grid, two)
          /\ \A dc \in {-1, 1} :
                <<one[1], sq[2] + dc>> \in dests
                  <=> HoldsEnemyOf(board.grid, <<one[1], sq[2] + dc>>, color)
          /\ dests \subseteq
               {one, two, <<one[1], sq[2] - 1>>, <<one[1], sq[2] + 1>>}

\* One pawn stands before an enemy piece and has no move ahead, and one pawn
\* has a diagonal capture.
C18_Witness ==
  /\ just_moved
  /\ \E sq \in Pawns(board.grid) :
        /\ HoldsEnemyOf(board.grid,
                        <<sq[1] + Forward(At(board.grid, sq).color), sq[2]>>,
                        At(board.grid, sq).color)
        /\ \A t \in Destinations(board.grid, sq) : t[2] # sq[2]
  /\ \E sq \in Pawns(board.grid) :
        \E t \in Destinations(board.grid, sq) :
           t[2] # sq[2] /\ At(board.grid, t) # None

\* The piece on square a attacks square t by the rules of chess: a pawn its
\* two forward diagonals, a knight and a king by their offsets, a slider
\* along an unobstructed ray.
Attacks(g, a, t) ==
  LET p == At(g, a)
      dr == t[1] - a[1]
      dc == t[2] - a[2]
  IN CASE p.kind = "P" -> dr = Forward(p.color) /\ Abs(dc) = 1
       [] p.kind = "N" -> {Abs(dr), Abs(dc)} = {1, 2}
       [] p.kind = "K" -> a # t /\ Abs(dr) <= 1 /\ Abs(dc) <= 1
       [] OTHER -> /\ OnRayOf(p.kind, a, t)
                   /\ \A m \in Between(a, t) : At(g, m) = None

AttackedBy(g, t, color) ==
  \E a \in Occupied(g) : At(g, a).color = color /\ Attacks(g, a, t)

\* The moves of the king of the colour onto an empty square that an enemy
\* pawn attacks.
KingStepsBeforePawn(g, color) ==
  {mv \in PseudoMovesOf(g, color) :
     /\ At(g, mv[1]).kind = "K"
     /\ At(g, mv[2]) = None
     /\ \E a \in Pawns(g) :
           At(g, a).color = Opp(color) /\ Attacks(g, a, mv[2])}

\* C19: in every position the game reaches (one king per side), in_check of
\* a colour is true iff an enemy piece attacks the king's square by the rules
\* of chess, so a pawn straight before the king gives no check; and a king's
\* step onto an empty square on a forward diagonal of an enemy pawn is not a
\* legal move.
C19_CheckIsAttack ==
  (just_moved \/ ~Moved) =>
    \A color \in Colors :
       /\ in_check(board.grid, color) <=>
            \E k \in KingSquares(board.grid, color) :
               AttackedBy(board.grid, k, Opp(color))
       /\ \A mv \in KingStepsBeforePawn(board.grid, color) :
             /\ ~is_legal_move(board.grid, mv, color).legal
             /\ mv \notin SeqToSet(generate_legal_moves(board.grid, color).legal)

\* The king of the side to move could step onto an empty square that an
\* enemy pawn attacks.
C19_Witness ==
  /\ just_moved
  /\ KingStepsBeforePawn(board.grid, board.turn) # {}
  /\ ~in_check(board.grid, board.turn)

\* Black is to move in a game that goes on, at a position the exploration
\* continues from.
ReplyDue ==
  /\ AiToMove(board)
  /\ pc = "run"
  /\ CanContinue(board, played)

\* C20: whenever it is Black's turn and game_over is None, then, with update
\* called again and again and the clock advancing, the state is eventually
\* one with White to move or game_over set, unless the loop is left by QUIT;
\* and whenever the deadline of the reply is reached the legal-move list of
\* Black is not empty, so ai_move applies a move.
C20_BlackReplies ==
  /\ ReplyDue ~> (board.turn = "w" \/ board.game_over # NoneVal \/ ~running)
  /\ [](AiToMove(board) /\ pending_ai_time = Reached =>
          generate_legal_moves(board.grid, "b").legal # <<>>)

\* Black has replied a second time and the game goes on.
C20_Witness ==
  /\ just_moved
  /\ caller = "ai"
  /\ Len(played) >= 4
  /\ running
  /\ board.turn = "w"
  /\ board.game_over = NoneVal

====
